---- MODULE Spec2Model ----
(***************************************************************************)
(* Notes API of project-camp: the Express middleware chain of the notes    *)
(* router (verifyJWT, validateProjectPermission, notesValidator, validate, *)
(* controller), the note controllers, and the boundary errorHandler.       *)
(***************************************************************************)
EXTENDS Integers, Sequences, FiniteSets, TLC

(* ---------------------------- bounds ---------------------------------- *)
MaxRequests == 2
SeedNotes == 2

Requests == 1..MaxRequests
NoteIds == 1..(SeedNotes + MaxRequests)
ParamNoteIds == 1..(SeedNotes + 1)

Users == {"u1", "u2"}
Projects == {"p1", "p2"}
NoUser == "nouser"
NoProject == "noproject"
NoRole == "norole"
NoNoteId == 0

(* ------------------------- utils/constants.js -------------------------- *)
ADMIN == "admin"
PROJECT_ADMIN == "project_admin"
MEMBER == "member"
UserRolesEnum == {ADMIN, PROJECT_ADMIN, MEMBER}
AvailableUserRoles == UserRolesEnum

(* ------------------------------ state --------------------------------- *)
VARIABLES
    members,   \* Membership table: <<user, project>> -> role or NoRole
    projects,  \* Project collection: set of existing project ids
    notes,     \* ProjectNote collection: note id -> document or Absent
    nextId,    \* next fresh ObjectId of the ProjectNote collection
    req,       \* per request: inputs, position in the chain, response
    gate,      \* one call of the permission gate: input and decision
    errIn,     \* an error handed to the boundary errorHandler
    errOut     \* the response errorHandler produced for errIn

vars == <<members, projects, notes, nextId, req, gate, errIn, errOut>>

Absent == [project |-> NoProject, content |-> "", createdBy |-> NoUser]
NoError == [isApiError |-> FALSE, isMongoose |-> FALSE, statusCode |-> 0, message |-> ""]
NoResponse == [statusCode |-> 0, message |-> "", stack |-> FALSE]
NoGate == [user |-> NoUser, project |-> NoProject, allowedRoles |-> {}, out |-> "idle", role |-> NoRole]

(* ------------------------- utils/api-error.js -------------------------- *)
ApiError(statusCode, message) ==
    [isApiError |-> TRUE, isMongoose |-> FALSE, statusCode |-> statusCode, message |-> message]

(* an error rejected by a storage call: a mongoose.Error (CastError,      *)
(* ValidationError ...) or a driver error that is no mongoose.Error        *)
StorageError(kind) ==
    [isApiError |-> FALSE, isMongoose |-> (kind = "mongoose"), statusCode |-> 0, message |-> "storage"]

StorageFaults == {"mongoose", "driver"}

(* ---------------------- middlewares/error.middleware ------------------- *)
\* error.statusCode || error instanceof mongoose.Error ? 400 : 500
\* parses as (error.statusCode || error instanceof mongoose.Error) ? 400 : 500
StatusIntended(err) ==
    IF err.statusCode # 0 THEN err.statusCode
    ELSE IF err.isMongoose THEN 400 ELSE 500

StatusAssigned(err) ==
    IF (err.statusCode # 0) \/ err.isMongoose THEN 400 ELSE 500

\* the instanceof ApiError test left out: every error is re-derived
ErrorStatusNoApiCheck(err) == StatusAssigned(err)

ErrorStatus(err) ==
    IF err.isApiError THEN err.statusCode ELSE StatusAssigned(err)

errorHandler(err, nodeEnv) ==
    [statusCode |-> ErrorStatus(err),
     message    |-> IF err.isApiError \/ err.message # "" THEN err.message
                    ELSE "Something went wrong",
     stack      |-> (nodeEnv = "development")]

(* --------------------------- routes/note.routes ------------------------ *)
\* routes are named after their controller
Routes == {"getNotes", "createNote", "getNoteById", "updateNote", "deleteNote"}

RouteMethod(route) ==
    CASE route = "getNotes"    -> "GET"
      [] route = "createNote"  -> "POST"
      [] route = "getNoteById" -> "GET"
      [] route = "updateNote"  -> "PUT"
      [] route = "deleteNote"  -> "DELETE"

\* "/:projectId" carries no noteId, "/:projectId/n/:noteId" does
HasNoteId(route) == route \in {"getNoteById", "updateNote", "deleteNote"}

\* routes whose stack holds notesValidator(), validate
ValidatedRoutes == {"createNote", "updateNote"}

Mutating(route) == RouteMethod(route) \in {"POST", "PUT", "DELETE"}

\* the PUT route declared with the read routes' role set
AllowedRolesPutOpen(route) ==
    IF route \in {"createNote", "deleteNote"} THEN {ADMIN} ELSE AvailableUserRoles

\* the array handed to validateProjectPermission(...) in the route declaration
AllowedRoles(route) ==
    CASE route = "getNotes"    -> AvailableUserRoles
      [] route = "createNote"  -> {ADMIN}
      [] route = "getNoteById" -> AvailableUserRoles
      [] route = "updateNote"  -> {ADMIN}
      [] route = "deleteNote"  -> {ADMIN}

\* the routes registered before router.use(verifyJWT)
ChainGateFirst(route) ==
    IF route \in ValidatedRoutes
    THEN <<"validateProjectPermission", "verifyJWT", "notesValidator", "validate", route>>
    ELSE <<"validateProjectPermission", "verifyJWT", route>>

\* notesValidator(), validate listed before validateProjectPermission(...)
ChainValidateFirst(route) ==
    IF route \in ValidatedRoutes
    THEN <<"verifyJWT", "notesValidator", "validate", "validateProjectPermission", route>>
    ELSE <<"verifyJWT", "validateProjectPermission", route>>

\* notesValidator(), validate left out of the PUT route
ChainSkipValidator(route) ==
    IF route = "createNote"
    THEN <<"verifyJWT", "validateProjectPermission", "notesValidator", "validate", route>>
    ELSE <<"verifyJWT", "validateProjectPermission", route>>

\* the middleware stack of a request: router.use(verifyJWT), then the route's
Chain(route) ==
    CASE route = "getNotes"    ->
            <<"verifyJWT", "validateProjectPermission", "getNotes">>
      [] route = "createNote"  ->
            <<"verifyJWT", "validateProjectPermission", "notesValidator", "validate", "createNote">>
      [] route = "getNoteById" ->
            <<"verifyJWT", "validateProjectPermission", "getNoteById">>
      [] route = "updateNote"  ->
            <<"verifyJWT", "validateProjectPermission", "notesValidator", "validate", "updateNote">>
      [] route = "deleteNote"  ->
            <<"verifyJWT", "validateProjectPermission", "deleteNote">>

(* ----------------------- middlewares/auth.middleware ------------------- *)
Tokens ==
    {[kind |-> "missing", sub |-> NoUser],
     [kind |-> "malformed", sub |-> NoUser],
     [kind |-> "expired", sub |-> "u1"]}
    \cup {[kind |-> "valid", sub |-> u] : u \in Users}

NoToken == [kind |-> "missing", sub |-> NoUser]

\* Credential Verifier: the identity of the token, or NoUser (Unauthenticated)
verifyJWT(token) ==
    IF token.kind = "valid" THEN token.sub ELSE NoUser

\* Project Membership Resolver: lookup(userId, projectId) -> Role | absent
MemberRole(m, identity, projectId) ==
    IF <<identity, projectId>> \in DOMAIN m THEN m[<<identity, projectId>>] ELSE NoRole

\* the gate without its role comparison: any member passes
authorizeAnyMember(m, identity, projectId, allowedRoles) ==
    LET role == MemberRole(m, identity, projectId) IN
    IF role = NoRole THEN [out |-> "NotAMember", role |-> NoRole]
    ELSE [out |-> "Allow", role |-> role]

\* Permission Gate
authorize(m, identity, projectId, allowedRoles) ==
    LET role == MemberRole(m, identity, projectId) IN
    IF role = NoRole THEN [out |-> "NotAMember", role |-> NoRole]
    ELSE IF role \notin allowedRoles THEN [out |-> "InsufficientRole", role |-> role]
    ELSE [out |-> "Allow", role |-> role]

(* --------------------- validators (notesValidator) --------------------- *)
Bodies == {"", "new"}

\* TRUE iff the payload has field errors: content must not be empty
notesValidator(body) == (body = "")

(* ------------------------------ requests ------------------------------- *)
IdleReq ==
    [stage |-> "Idle", route |-> "none", token |-> NoToken, projectId |-> NoProject,
     noteId |-> NoNoteId, body |-> "", idx |-> 0, hpc |-> 0, from |-> "none",
     user |-> NoUser, decision |-> "none", role |-> NoRole, errors |-> FALSE,
     gateCalls |-> 0, validatorCalls |-> 0, handlerCalls |-> 0,
     status |-> 0, message |-> "", errorKind |-> "none", data |-> Absent, list |-> {},
     wrote |-> NoNoteId, wroteProject |-> NoProject]

InFlight == {"Received", "Authenticated", "Authorized", "Validated"}
Terminal == {"Handled", "Rejected"}

\* the middleware or controller the request is about to enter
Current(r) ==
    IF req[r].stage \in InFlight THEN Chain(req[r].route)[req[r].idx] ELSE "none"

\* next(err) / a throw caught by asyncHandler: errorHandler answers the request
RejectWith(rq, err, kind) ==
    [rq EXCEPT !.from = rq.stage, !.stage = "Rejected",
               !.status = ErrorStatus(err), !.message = err.message, !.errorKind = kind]

\* res.status(code).json(new ApiResponse(code, data, ...))
Respond(rq, code, data) ==
    [rq EXCEPT !.stage = "Handled", !.status = code, !.data = data]

SeedNote(n) ==
    [project |-> IF n % 2 = 1 THEN "p1" ELSE "p2", content |-> "old", createdBy |-> "u1"]

SeedMembers ==
    (<<"u1", "p1">> :> ADMIN) @@ (<<"u1", "p2">> :> MEMBER) @@
    (<<"u2", "p1">> :> PROJECT_ADMIN) @@ (<<"u2", "p2">> :> NoRole)

Init ==
    /\ members = SeedMembers
    /\ projects = Projects
    /\ notes = [n \in NoteIds |-> IF n <= SeedNotes THEN SeedNote(n) ELSE Absent]
    /\ nextId = SeedNotes + 1
    /\ req = [r \in Requests |-> IdleReq]
    /\ gate = NoGate
    /\ errIn = [err |-> NoError, nodeEnv |-> "production"]
    /\ errOut = NoResponse

db == <<members, projects, notes, nextId>>
aux == <<gate, errIn, errOut>>

\* an inbound request on a notes route (requests are numbered in arrival order)
Receive(r) ==
    /\ req[r].stage = "Idle"
    /\ IF r = 1 THEN TRUE ELSE req[r - 1].stage # "Idle"
    /\ \E route \in Routes, token \in Tokens, p \in Projects,
          n \in ParamNoteIds, body \in Bodies :
          /\ HasNoteId(route) \/ n = 1
          /\ RouteMethod(route) # "GET" \/ body = ""
          /\ req' = [req EXCEPT ![r] =
                 [IdleReq EXCEPT !.stage = "Received", !.route = route, !.token = token,
                                 !.projectId = p,
                                 !.noteId = IF HasNoteId(route) THEN n ELSE NoNoteId,
                                 !.body = body, !.idx = 1]]
    /\ UNCHANGED <<db, aux>>

VerifyJWT(r) ==
    /\ Current(r) = "verifyJWT"
    /\ LET rq == req[r]
           identity == verifyJWT(rq.token) IN
       req' = [req EXCEPT ![r] =
                 IF identity = NoUser
                 THEN RejectWith(rq, ApiError(401, "Unauthorized request"), "Unauthenticated")
                 ELSE [rq EXCEPT !.user = identity, !.stage = "Authenticated",
                                 !.idx = rq.idx + 1]]
    /\ UNCHANGED <<db, aux>>

ValidateProjectPermission(r) ==
    /\ Current(r) = "validateProjectPermission"
    /\ LET rq == [req[r] EXCEPT !.gateCalls = @ + 1]
           d == authorize(members, rq.user, rq.projectId, AllowedRoles(rq.route)) IN
       req' = [req EXCEPT ![r] =
                 IF d.out # "Allow"
                 THEN RejectWith([rq EXCEPT !.decision = d.out, !.role = d.role],
                                 ApiError(403, "Forbidden"), d.out)
                 ELSE [rq EXCEPT !.decision = d.out, !.role = d.role,
                                 !.stage = "Authorized", !.idx = rq.idx + 1]]
    /\ UNCHANGED <<db, aux>>

NotesValidator(r) ==
    /\ Current(r) = "notesValidator"
    /\ req' = [req EXCEPT ![r] =
                 [@ EXCEPT !.validatorCalls = @ + 1, !.errors = notesValidator(req[r].body),
                           !.idx = @ + 1]]
    /\ UNCHANGED <<db, aux>>

Validate(r) ==
    /\ Current(r) = "validate"
    /\ LET rq == req[r] IN
       req' = [req EXCEPT ![r] =
                 IF rq.errors
                 THEN RejectWith(rq, ApiError(422, "Received data is not valid"), "ValidationFailed")
                 ELSE [rq EXCEPT !.stage = "Validated", !.idx = rq.idx + 1]]
    /\ UNCHANGED <<db, aux>>

(* ---------------------- controllers/note.controllers ------------------ *)
\* the controller is entered: asyncHandler calls requestHandler(req, res, next)
Enter(rq) == IF rq.hpc = 0 THEN [rq EXCEPT !.handlerCalls = @ + 1] ELSE rq

ProjectNotFound == ApiError(404, "Project not found")
NoteNotFound == ApiError(404, "Note not found")

\* getNotes: const project = await Project.findById(projectId)
GetNotesFindProject(r) ==
    /\ Current(r) = "getNotes" /\ req[r].hpc = 0
    /\ LET rq == Enter(req[r]) IN
       req' = [req EXCEPT ![r] =
                 IF rq.projectId \notin projects
                 THEN RejectWith(rq, ProjectNotFound, "ResourceNotFound")
                 ELSE [rq EXCEPT !.hpc = 1]]
    /\ UNCHANGED <<db, aux>>

\* getNotes: await ProjectNote.find({project}).populate(...); 200
GetNotesFind(r) ==
    /\ Current(r) = "getNotes" /\ req[r].hpc = 1
    /\ LET rq == req[r]
           found == {n \in NoteIds : notes[n] # Absent /\ notes[n].project = rq.projectId} IN
       req' = [req EXCEPT ![r] = [Respond(rq, 200, Absent) EXCEPT !.list = found]]
    /\ UNCHANGED <<db, aux>>

\* createNote: const project = await Project.findById(projectId)
CreateNoteFindProject(r) ==
    /\ Current(r) = "createNote" /\ req[r].hpc = 0
    /\ LET rq == Enter(req[r]) IN
       req' = [req EXCEPT ![r] =
                 IF rq.projectId \notin projects
                 THEN RejectWith(rq, ProjectNotFound, "ResourceNotFound")
                 ELSE [rq EXCEPT !.hpc = 1]]
    /\ UNCHANGED <<db, aux>>

\* createNote: const note = await ProjectNote.create({project, content, createdBy})
CreateNoteCreate(r) ==
    /\ Current(r) = "createNote" /\ req[r].hpc = 1
    /\ nextId \in NoteIds
    /\ LET rq == req[r] IN
       /\ notes' = [notes EXCEPT ![nextId] =
                      [project |-> rq.projectId, content |-> rq.body, createdBy |-> rq.user]]
       /\ req' = [req EXCEPT ![r] =
                    [rq EXCEPT !.hpc = 2, !.wrote = nextId, !.wroteProject = rq.projectId]]
    /\ nextId' = nextId + 1
    /\ UNCHANGED <<members, projects, aux>>

\* createNote: await ProjectNote.findById(note._id).populate(...); 201
CreateNotePopulate(r) ==
    /\ Current(r) = "createNote" /\ req[r].hpc = 2
    /\ req' = [req EXCEPT ![r] = Respond(req[r], 201, notes[req[r].wrote])]
    /\ UNCHANGED <<db, aux>>

\* updateNote: const existingNote = await ProjectNote.findById(noteId)
UpdateNoteFind(r) ==
    /\ Current(r) = "updateNote" /\ req[r].hpc = 0
    /\ LET rq == Enter(req[r]) IN
       req' = [req EXCEPT ![r] =
                 IF notes[rq.noteId] = Absent
                 THEN RejectWith(rq, NoteNotFound, "ResourceNotFound")
                 ELSE [rq EXCEPT !.hpc = 1]]
    /\ UNCHANGED <<db, aux>>

\* updateNote: await ProjectNote.findByIdAndUpdate(noteId, {content}, {new: true})
\*             .populate(...); 200 with whatever the query returned.
\* The populate is a second query run after the update has been applied: it
\* answers, or it rejects with a storage error.
UpdateNoteUpdate(r) ==
    /\ Current(r) = "updateNote" /\ req[r].hpc = 1
    /\ LET rq == req[r]
           old == notes[rq.noteId]
           new == [old EXCEPT !.content = rq.body] IN
       IF old = Absent
       THEN /\ req' = [req EXCEPT ![r] = Respond(rq, 200, Absent)]
            /\ UNCHANGED notes
       ELSE /\ notes' = [notes EXCEPT ![rq.noteId] = new]
            /\ LET done == [rq EXCEPT !.wrote = rq.noteId, !.wroteProject = old.project] IN
               \/ req' = [req EXCEPT ![r] = Respond(done, 200, new)]
               \/ \E kind \in StorageFaults :
                     req' = [req EXCEPT ![r] =
                               RejectWith(done, StorageError(kind), "StorageError")]
    /\ UNCHANGED <<members, projects, nextId, aux>>

\* deleteNote: const note = await ProjectNote.findByIdAndDelete(noteId); 404 or 200
DeleteNote(r) ==
    /\ Current(r) = "deleteNote" /\ req[r].hpc = 0
    /\ LET rq == Enter(req[r])
           old == notes[rq.noteId] IN
       IF old = Absent
       THEN /\ req' = [req EXCEPT ![r] = RejectWith(rq, NoteNotFound, "ResourceNotFound")]
            /\ UNCHANGED notes
       ELSE /\ notes' = [notes EXCEPT ![rq.noteId] = Absent]
            /\ req' = [req EXCEPT ![r] =
                         Respond([rq EXCEPT !.wrote = rq.noteId, !.wroteProject = old.project],
                                 200, old)]
    /\ UNCHANGED <<members, projects, nextId, aux>>

\* getNoteById: await ProjectNote.findById(noteId).populate(...); 404 or 200
GetNoteById(r) ==
    /\ Current(r) = "getNoteById" /\ req[r].hpc = 0
    /\ LET rq == Enter(req[r])
           note == notes[rq.noteId] IN
       req' = [req EXCEPT ![r] =
                 IF note = Absent
                 THEN RejectWith(rq, NoteNotFound, "ResourceNotFound")
                 ELSE Respond(rq, 200, note)]
    /\ UNCHANGED <<db, aux>>

\* the storage call a controller is awaiting rejects before taking effect;
\* asyncHandler's catch hands the error to errorHandler
StorageFault(r) ==
    /\ Current(r) \in Routes
    /\ \E kind \in StorageFaults :
          req' = [req EXCEPT ![r] =
                    RejectWith(Enter(req[r]), StorageError(kind), "StorageError")]
    /\ UNCHANGED <<db, aux>>

\* a project is deleted by the project routes, with its membership rows
DeleteProject(p) ==
    /\ p \in projects
    /\ projects' = projects \ {p}
    /\ members' = [k \in DOMAIN members |-> IF k[2] = p THEN NoRole ELSE members[k]]
    /\ UNCHANGED <<notes, nextId, req, aux>>

Next ==
    \/ \E r \in Requests : Receive(r)
    \/ \E r \in Requests : VerifyJWT(r)
    \/ \E r \in Requests : ValidateProjectPermission(r)
    \/ \E r \in Requests : NotesValidator(r)
    \/ \E r \in Requests : Validate(r)
    \/ \E r \in Requests : GetNotesFindProject(r)
    \/ \E r \in Requests : GetNotesFind(r)
    \/ \E r \in Requests : CreateNoteFindProject(r)
    \/ \E r \in Requests : CreateNoteCreate(r)
    \/ \E r \in Requests : CreateNotePopulate(r)
    \/ \E r \in Requests : UpdateNoteFind(r)
    \/ \E r \in Requests : UpdateNoteUpdate(r)
    \/ \E r \in Requests : DeleteNote(r)
    \/ \E r \in Requests : GetNoteById(r)
    \/ \E r \in Requests : StorageFault(r)
    \/ \E p \in Projects : DeleteProject(p)

Spec == Init /\ [][Next]_vars

(* ------------------- the permission gate on its own -------------------- *)
RoleOrNone == UserRolesEnum \cup {NoRole}

InitGate ==
    /\ members \in [Users \X Projects -> RoleOrNone]
    /\ projects = Projects
    /\ notes = [n \in NoteIds |-> IF n <= SeedNotes THEN SeedNote(n) ELSE Absent]
    /\ nextId = SeedNotes + 1
    /\ req = [r \in Requests |-> IdleReq]
    /\ gate = NoGate
    /\ errIn = [err |-> NoError, nodeEnv |-> "production"]
    /\ errOut = NoResponse

\* authorize(request.identity, request.routeProjectId, route.allowedRoles)
GateCall ==
    /\ \E u \in Users, p \in Projects, allowed \in SUBSET UserRolesEnum :
          LET d == authorize(members, u, p, allowed) IN
          gate' = [user |-> u, project |-> p, allowedRoles |-> allowed,
                   out |-> d.out, role |-> d.role]
    /\ UNCHANGED <<db, req, errIn, errOut>>

NextGate == GateCall

SpecGate == InitGate /\ [][NextGate]_vars

(* --------------------- the error handler on its own -------------------- *)
StatusCodes == {400, 401, 403, 404, 409, 422, 500, 503}

\* what next(err) can carry: an ApiError, or any other Error (a mongoose.Error
\* or not, with or without a statusCode property, with or without a message)
Errors ==
    {ApiError(c, "api") : c \in StatusCodes}
    \cup [isApiError : {FALSE}, isMongoose : BOOLEAN,
          statusCode : StatusCodes \cup {0}, message : {"", "boom"}]

InitErr ==
    /\ members = SeedMembers
    /\ projects = Projects
    /\ notes = [n \in NoteIds |-> IF n <= SeedNotes THEN SeedNote(n) ELSE Absent]
    /\ nextId = SeedNotes + 1
    /\ req = [r \in Requests |-> IdleReq]
    /\ gate = NoGate
    /\ errIn \in [err : Errors, nodeEnv : {"development", "production"}]
    /\ errOut = NoResponse

HandleError ==
    /\ errOut = NoResponse
    /\ errOut' = errorHandler(errIn.err, errIn.nodeEnv)
    /\ UNCHANGED <<db, req, gate, errIn>>

NextErr == HandleError

SpecErr == InitErr /\ [][NextErr]_vars

(* ============================== claims ================================= *)
ValidToken(rq) == rq.token.kind = "valid"
Denied(rq) == rq.decision \in {"NotAMember", "InsufficientRole"}
Received(rq) == rq.stage # "Idle"

\* C1: for every identity, project and allowedRoles the gate returns Allow iff
\* a membership exists for (identity, project) and its role is in allowedRoles;
\* with no membership it returns NotAMember, with a membership whose role is
\* outside allowedRoles it returns InsufficientRole.
C1_GateDecision ==
    gate.out # "idle" =>
        LET role == members[<<gate.user, gate.project>>]
            has == role # NoRole
            in == role \in gate.allowedRoles IN
        /\ (gate.out = "Allow") <=> (has /\ in)
        /\ ~has => gate.out = "NotAMember"
        /\ (has /\ ~in) => gate.out = "InsufficientRole"
        /\ gate.out \in {"Allow", "NotAMember", "InsufficientRole"}

\* a MEMBER asks for a route that requires {ADMIN} and is denied
C1_Witness ==
    /\ gate.out = "InsufficientRole"
    /\ members[<<gate.user, gate.project>>] = MEMBER
    /\ gate.allowedRoles = {ADMIN}

\* C2: on every notes route the permission gate is evaluated only after
\* verifyJWT has succeeded; a request with a missing, malformed or expired
\* token is rejected without the gate ever being evaluated.
C2_AuthBeforeGate ==
    \A r \in Requests :
        LET rq == req[r] IN
        /\ rq.gateCalls > 0 => (ValidToken(rq) /\ rq.user = rq.token.sub)
        /\ (Received(rq) /\ ~ValidToken(rq)) =>
              /\ rq.gateCalls = 0 /\ rq.decision = "none"
              /\ rq.stage \in {"Received", "Rejected"}
              /\ rq.stage = "Rejected" =>
                    (rq.from = "Received" /\ rq.errorKind = "Unauthenticated")

\* an expired token on an {ADMIN} route of a project its subject is ADMIN of
C2_Witness ==
    \E r \in Requests :
        /\ req[r].token.kind = "expired" /\ req[r].stage = "Rejected"
        /\ req[r].route = "updateNote" /\ req[r].projectId = "p1"
        /\ req[r].gateCalls = 0

\* C3: the validator is invoked only for a request that has passed
\* authentication and been allowed by the gate; when the token is invalid or
\* the gate denies, the validator call count is 0 and no ValidationFailed
\* error is returned.
C3_ValidatorAfterGate ==
    \A r \in Requests :
        LET rq == req[r] IN
        /\ rq.validatorCalls > 0 => (ValidToken(rq) /\ rq.decision = "Allow")
        /\ (Received(rq) /\ (~ValidToken(rq) \/ Denied(rq))) =>
              (rq.validatorCalls = 0 /\ rq.errorKind # "ValidationFailed")

\* a payload that fails the schema, sent by a non-ADMIN member: rejected by
\* the gate, the validator never run
C3_Witness ==
    \E r \in Requests :
        /\ req[r].route \in ValidatedRoutes /\ req[r].body = ""
        /\ req[r].decision = "InsufficientRole" /\ req[r].stage = "Rejected"
        /\ req[r].validatorCalls = 0

\* the gate found role ADMIN for the request on a route that requires {ADMIN}
AdminOnAdminRoute(rq) ==
    /\ ValidToken(rq) /\ AllowedRoles(rq.route) = {ADMIN}
    /\ rq.gateCalls > 0 /\ rq.role = ADMIN

C5_Claim ==
    \A r \in Requests :
        /\ req[r].stage \in Terminal => (req[r].stage = "Handled") # (req[r].stage = "Rejected")
        /\ req[r].stage = "Rejected" => req[r].wrote = NoNoteId

\* C6 as stated: Rejected is entered only from Received, Authenticated or
\* Authorized; a request that has reached Validated is never rejected.
C6_Original ==
    \A r \in Requests :
        req[r].stage = "Rejected" => req[r].from \in {"Received", "Authenticated", "Authorized"}

\* C6 amended: Rejected is entered from Received (by the verifier), from
\* Authenticated (by the gate), from Authorized (by the validator, or by the
\* handler of a route without validator) and also from Validated, there only
\* by the route handler, invoked once: its project/note existence check
\* (404) or a storage error (400 or 500).
C6_RejectedFrom ==
    \A r \in Requests :
        LET rq == req[r] 
            byHandler == /\ rq.handlerCalls = 1
                         /\ \/ rq.errorKind = "ResourceNotFound" /\ rq.status = 404
                            \/ rq.errorKind = "StorageError" /\ rq.status \in {400, 500} IN
        rq.stage = "Rejected" =>
            /\ rq.from \in InFlight
            /\ rq.from = "Received" => rq.errorKind = "Unauthenticated"
            /\ rq.from = "Authenticated" => rq.errorKind \in {"NotAMember", "InsufficientRole"}
            /\ rq.from = "Authorized" =>
                  IF rq.route \in ValidatedRoutes
                  THEN rq.errorKind = "ValidationFailed" /\ rq.handlerCalls = 0
                  ELSE byHandler
            /\ rq.from = "Validated" => (rq.route \in ValidatedRoutes /\ byHandler)

\* a validated request rejected by its handler's existence check
C6_Witness ==
    \E r \in Requests :
        /\ req[r].stage = "Rejected" /\ req[r].from = "Validated"
        /\ req[r].errorKind = "ResourceNotFound" /\ req[r].status = 404

C8_ErrorStatus ==
    errOut # NoResponse =>
        LET e == errIn.err IN
        /\ (~e.isApiError /\ e.isMongoose) => errOut.statusCode = 400
        /\ (~e.isApiError /\ errOut.statusCode = 500) => (e.statusCode = 0 /\ ~e.isMongoose)
        /\ (~e.isApiError /\ e.statusCode = 0 /\ ~e.isMongoose) => errOut.statusCode = 500
        /\ e.isApiError => errOut.statusCode = e.statusCode

\* a mongoose error that carries statusCode 503 is answered 400
C8_Witness ==
    /\ errOut.statusCode = 400
    /\ ~errIn.err.isApiError /\ errIn.err.isMongoose /\ errIn.err.statusCode = 503

\* C9: a PUT or DELETE on /:projectId/n/:noteId that the gate allowed for
\* project P changes or deletes only a note of project P.
C9_Claim ==
    \A r \in Requests :
        (req[r].route \in {"updateNote", "deleteNote"} /\ req[r].wrote # NoNoteId) =>
            req[r].wroteProject = req[r].projectId

\* C10: updateNote never answers success when the note does not exist at the
\* moment the update is applied; its 200 always carries the updated note.
C10_Claim ==
    \A r \in Requests :
        (req[r].route = "updateNote" /\ req[r].stage = "Handled") =>
            (req[r].status = 200 /\ req[r].data # Absent /\ req[r].wrote = req[r].noteId)

====
